---- MODULE Spec2Model ----
(***************************************************************************)
(* A model of the PDF ingestion and query scripts of the repository:       *)
(*   src/llama-parse.py     (menu, parse_pdfs_to_file, query loop)         *)
(*   src/unnamed/part_000   (parse_pdfs_to_markdown, the older copy)       *)
(*                                                                         *)
(* Spec      : process start, menu and batch conversion of both scripts.   *)
(* SpecQuery : the query loop of llama-parse.py main.                      *)
(* SpecChunk : create_nodes_from_markdown on character-level file content. *)
(***************************************************************************)
EXTENDS Integers, Sequences, FiniteSets, TLC

\* ------------------------------------------------------------------ bounds
NumStems == 3      \* PDF stems that may be present in data/documents
MaxSegs == 2       \* documents returned by one parser.load_data call
MaxRuns == 2       \* ingestion runs (calls of the batch function) observed
MaxNodes == 16     \* nodes the index holds
MaxQueries == 2    \* questions asked in one query session
MaxPieces == 5     \* pieces a file content is put together from

Stems == 1..NumStems
Formats == {".md", ".txt"}
Scripts == {"llama-parse", "copy"}

\* ------------------------------------------------------------------ state
VARIABLES
  script,          \* which of the two entry scripts the process executes
  openaiKey,       \* OPENAI_API_KEY is set in the environment
  llamaKey,        \* LLAMA_CLOUD_API_KEY is set in the environment
  pdfDir,          \* data/documents exists
  pdfs,            \* stems s for which data/documents/<s>.pdf exists; a stem
                   \* is named by its place in the directory listing
  out,             \* out[f][s]: state of output/<dir of f>/<s><f>
  pc,              \* position of the process
  choice,          \* show_menu's answer
  output_format,   \* show_format_menu's answer (".md" in the copy script)
  pdf_files,       \* list(pdf_dir.glob("*.pdf"))
  remaining_pdfs,  \* parse_pdfs_to_file: PDFs without an output file
  output_files,    \* the list the batch function builds and returns
  i,               \* index of the for loop over the PDFs
  documents,       \* number of documents load_data returned (-1: none held)
  runs,            \* batch runs started so far
  atStart,         \* history: stems whose output existed when the run began
  dirAtStart,      \* history: data/documents existed when the run began
  runCalls,        \* history: stems handed to parser.load_data in this run
  opened,          \* history: stems opened with mode "w" in this run
  converted,       \* history: stems converted and fully written in this run
  failed,          \* history: stems whose conversion raised a non-quota error
  report,          \* history: kinds of messages printed in this run
  quotaAt,         \* history: loop index at which the quota error was raised
  convCount,       \* history: convCount[f][s] successful conversions, all runs
  qpc,             \* query loop: position
  cands,           \* query loop: scores of the chunks the index ranks, best first
  response,        \* query loop: what process_query returned
  generated,       \* history: an answer was generated for this question
  shown,           \* history: what process_query_response displayed
  asked,           \* history: questions asked in this session
  content,         \* chunker: the characters of the file
  nodes,           \* chunker: the nodes create_nodes_from_markdown returned
  cpc,             \* chunker: position
  texts            \* round trip: doc.text of the documents of one conversion

vars == <<script, openaiKey, llamaKey, pdfDir, pdfs, out, pc, choice,
          output_format, pdf_files, remaining_pdfs, output_files, i,
          documents, runs, atStart, dirAtStart, runCalls, opened,
          converted, failed, report, quotaAt, convCount,
          qpc, cands, response, generated, shown, asked,
          content, nodes, cpc, texts>>

env == <<script, openaiKey, llamaKey>>
locals == <<pdf_files, remaining_pdfs, output_files, i, documents>>
qvars == <<qpc, cands, response, generated, shown, asked>>
cvars == <<content, nodes, cpc, texts>>
other == <<qvars, cvars>>
hist == <<atStart, dirAtStart, runCalls, opened, converted, failed, report,
          quotaAt>>

\* ---------------------------------------------------------------- helpers
\* The elements of a set of stems as a list in ascending order.
RECURSIVE SortedSeq(_)
SortedSeq(S) ==
  IF S = {} THEN <<>>
  ELSE LET m == CHOOSE x \in S : \A y \in S : x <= y
       IN <<m>> \o SortedSeq(S \ {m})

\* The list a loop over a set of stems produces.  Python fixes no order for
\* a set; the list is taken in ascending order and no formula below reads
\* the order of this part of a list.
ListOfSet(S) == SortedSeq(S)

\* ------------------------------------------------- conversion collaborator
\* Messages of the exceptions parser.load_data raises, as lists of phrases.
QuotaPhrase == "exceeded the maximum number of pages"
ErrMsgs == { <<QuotaPhrase>>,
             <<"Error:", QuotaPhrase, "per day">>,
             <<"parse failed">> }
\* Messages of the exceptions open() and f.write() raise.
IoMsgs == { <<"No space left on device">> }

\* llama-parse.py line 181: "exceeded the maximum number of pages" in str(e)
IsQuotaError(e) == \E k \in 1..Len(e) : e[k] = QuotaPhrase

\* llama-parse.py line 146: stems of the files the output directory holds.
ProcessedFiles(f) == {s \in Stems : out[f][s] # "absent"}

\* Mutant of RemainingPdfs: the processed PDFs are not filtered out.
RemainingPdfsAll(pf, processed) == pf

\* llama-parse.py line 147: the PDFs whose stem is not among the processed.
RemainingPdfs(pf, processed) ==
  SelectSeq(pf, LAMBDA s : s \notin processed)

\* part_000 line 67: markdown_file.exists()
MarkdownFileExists(s) == out[".md"][s] # "absent"

\* What the file on disk holds once it is closed with w of the n segments of
\* its source written to it.
FileAfter(w, n) == IF w = n THEN "complete" ELSE "partial"

\* Outcomes of LlamaParse(...) when the key is absent or present: TRUE when
\* the constructor raises.  Without a key the library either rejects the
\* construction or defers the failure to the first request.
CtorRaises(key) == IF key THEN {FALSE} ELSE {TRUE, FALSE}

\* Messages parser.load_data can raise: without a key no request is served.
LoadErrors(key) == IF key THEN ErrMsgs ELSE { <<"Invalid API key">> }
\* Numbers of documents parser.load_data can return.
LoadResults(key) == IF key THEN 0..MaxSegs ELSE {}

\* ------------------------------------------------------------------- Init
NoOutput == [f \in Formats |-> [s \in Stems |-> "absent"]]
NoCount == [f \in Formats |-> [s \in Stems |-> 0]]

InitQueryIdle ==
  /\ qpc = "idle" /\ cands = <<>>
  /\ response = [kind |-> "none", source_nodes |-> <<>>]
  /\ generated = FALSE /\ shown = "nothing" /\ asked = 0

InitChunkIdle ==
  /\ content = <<>> /\ nodes = <<>> /\ cpc = "idle" /\ texts = <<>>

InitLocals ==
  /\ choice = "" /\ output_format = ".md"
  /\ pdf_files = <<>> /\ remaining_pdfs = <<>> /\ output_files = <<>>
  /\ i = 0 /\ documents = -1
  /\ atStart = {} /\ dirAtStart = TRUE /\ runCalls = <<>> /\ opened = {} /\ converted = <<>>
  /\ failed = {} /\ report = {} /\ quotaAt = 0

\* The locals of the batch function and the history of a run, when no run
\* is under way (the values they held are never read again).
ResetRun ==
  /\ pdf_files' = <<>> /\ remaining_pdfs' = <<>> /\ output_files' = <<>>
  /\ i' = 0 /\ documents' = -1
  /\ atStart' = {} /\ dirAtStart' = TRUE /\ runCalls' = <<>> /\ opened' = {} /\ converted' = <<>>
  /\ failed' = {} /\ report' = {} /\ quotaAt' = 0

\* main's locals when control is back at the menu or main has ended: both
\* are assigned again (314, 320) before they are read.
ResetMain == choice' = "" /\ output_format' = ".md"

\* A fresh checkout: no output file yet; the environment and the corpus
\* directory are whatever the user prepared.
Init ==
  /\ script \in Scripts
  /\ openaiKey \in BOOLEAN /\ llamaKey \in BOOLEAN
  /\ pdfDir \in BOOLEAN
  /\ pdfs \in (IF pdfDir THEN {1..k : k \in 0..NumStems} ELSE {{}})
  /\ out = NoOutput
  /\ pc = "start" /\ runs = 0 /\ convCount = NoCount
  /\ InitLocals /\ InitQueryIdle /\ InitChunkIdle

\* ------------------------------------------------ llama-parse.py: startup
\* Lines 14-29: only OPENAI_API_KEY is read and tested.
Startup ==
  /\ pc = "start" /\ script = "llama-parse"
  /\ pc' = IF openaiKey THEN "menu" ELSE "crashed"
  /\ UNCHANGED <<env, pdfDir, pdfs, out, choice, output_format, locals, runs,
                 hist, convCount, other>>

\* show_menu (97-108) and main 314-318.  An invalid answer prompts again.
ShowMenu(c) ==
  /\ pc = "menu"
  /\ IF c = "3" THEN pc' = "exited" /\ choice' = ""
     ELSE /\ runs < MaxRuns
          /\ choice' = c
          /\ pc' = "format"
  /\ UNCHANGED <<env, pdfDir, pdfs, out, output_format, locals, runs, hist,
                 convCount, other>>

\* show_format_menu (110-120) and main 320-321.
ShowFormatMenu(f) ==
  /\ pc = "format"
  /\ output_format' = f
  /\ pc' = "parse"
  /\ UNCHANGED <<env, pdfDir, pdfs, out, choice, locals, runs, hist,
                 convCount, other>>

\* -------------------------------------- llama-parse.py: parse_pdfs_to_file
\* Lines 124-159: the parser is built, the output directory made, the PDFs
\* listed (glob of an absent directory lists nothing; the directory is not
\* made), the processed and the remaining ones told apart.
ParseBegin ==
  /\ pc = "parse" /\ script = "llama-parse"
  /\ runs' = runs + 1
  /\ \E raises \in CtorRaises(llamaKey) :
       IF raises
       THEN \* caught by main's `except Exception` (369-372): main returns
            /\ pc' = "exited"
            /\ ResetMain
            /\ UNCHANGED <<locals, hist>>
       ELSE LET pf == SortedSeq(pdfs)
                processed == ProcessedFiles(output_format)
                rem == RemainingPdfs(pf, processed)
            IN /\ pdf_files' = pf
               /\ atStart' = processed
               /\ dirAtStart' = pdfDir
               /\ runCalls' = <<>> /\ opened' = {} /\ converted' = <<>>
               /\ failed' = {} /\ report' = {} /\ quotaAt' = 0
               /\ documents' = -1 /\ i' = 0
               /\ UNCHANGED <<choice, output_format>>
               /\ IF pf = <<>>
                  THEN /\ output_files' = <<>>
                       /\ remaining_pdfs' = <<>>
                       /\ pc' = "returned"
                  ELSE /\ remaining_pdfs' = rem
                       /\ output_files' = ListOfSet(processed)
                       /\ pc' = IF rem = <<>> THEN "returned" ELSE "confirm"
  /\ UNCHANGED <<env, pdfDir, pdfs, out, convCount, other>>

\* Lines 161-164: the user confirms; Ctrl-C at the prompt is outside the try
\* of line 166 and reaches main's `except KeyboardInterrupt` (365-367).
Confirm(ans) ==
  /\ pc = "confirm"
  /\ pc' = CASE ans = "y" -> "loop"
             [] ans = "n" -> "returned"
             [] OTHER -> "menu"
  /\ IF ans \in {"y", "n"}
     THEN /\ i' = 1
          /\ UNCHANGED <<choice, output_format, pdf_files, remaining_pdfs,
                         output_files, documents, hist>>
     ELSE ResetRun /\ ResetMain
  /\ UNCHANGED <<env, pdfDir, pdfs, out, runs, convCount, other>>

\* Line 167: the loop is exhausted, the function returns (196).
LoopEnd ==
  /\ pc = "loop" /\ script = "llama-parse"
  /\ i > Len(remaining_pdfs)
  /\ pc' = "returned"
  /\ UNCHANGED <<env, pdfDir, pdfs, out, choice, output_format, locals, runs,
                 hist, convCount, other>>

\* Line 172, normal return: n documents.
LoadData(n) ==
  /\ pc = "loop" /\ script = "llama-parse"
  /\ i <= Len(remaining_pdfs)
  /\ n \in LoadResults(llamaKey)
  /\ runCalls' = Append(runCalls, remaining_pdfs[i])
  /\ documents' = n
  /\ pc' = "write"
  /\ UNCHANGED <<env, pdfDir, pdfs, out, choice, output_format, pdf_files,
                 remaining_pdfs, output_files, i, runs, atStart, dirAtStart,
                 opened, converted, failed, report, quotaAt, convCount, other>>

\* Mutant of HandleException: the quota branch reports and goes on with the
\* next PDF (continue in place of break).
HandleExceptionContinue(e) ==
  /\ report' = report \cup {IF IsQuotaError(e) THEN "quota" ELSE "failed"}
  /\ quotaAt' = IF IsQuotaError(e) THEN i ELSE quotaAt
  /\ failed' = IF IsQuotaError(e) THEN failed
               ELSE failed \cup {remaining_pdfs[i]}
  /\ i' = i + 1
  /\ pc' = "loop"

\* Mutant of HandleException: every exception ends the loop (break in place
\* of continue).
HandleExceptionAbort(e) ==
  /\ report' = report \cup {IF IsQuotaError(e) THEN "quota" ELSE "failed"}
  /\ quotaAt' = IF IsQuotaError(e) THEN i ELSE quotaAt
  /\ failed' = IF IsQuotaError(e) THEN failed
               ELSE failed \cup {remaining_pdfs[i]}
  /\ pc' = "returned"
  /\ UNCHANGED i

\* Lines 180-190: the handler of an Exception raised inside the inner try.
\* A quota message ends the loop (break); any other is reported and the loop
\* goes on with the next PDF (continue).
HandleException(e) ==
  IF IsQuotaError(e)
  THEN /\ report' = report \cup {"quota"}
       /\ quotaAt' = i
       /\ pc' = "returned"
       /\ UNCHANGED <<i, failed>>
  ELSE /\ report' = report \cup {"failed"}
       /\ failed' = failed \cup {remaining_pdfs[i]}
       /\ i' = i + 1
       /\ pc' = "loop"
       /\ UNCHANGED quotaAt

\* Line 172 raises an Exception.
LoadDataRaises(e) ==
  /\ pc = "loop" /\ script = "llama-parse"
  /\ i <= Len(remaining_pdfs)
  /\ e \in LoadErrors(llamaKey)
  /\ runCalls' = Append(runCalls, remaining_pdfs[i])
  /\ HandleException(e)
  /\ documents' = -1
  /\ UNCHANGED <<env, pdfDir, pdfs, out, choice, output_format, pdf_files,
                 remaining_pdfs, output_files, runs, atStart, dirAtStart,
                 opened, converted, convCount, other>>

\* Lines 173-178, no exception: the file is created or truncated, every
\* document's text and the delimiter are written, the file is closed and
\* listed.
WriteFile ==
  /\ pc = "write" /\ script = "llama-parse"
  /\ out' = [out EXCEPT ![output_format][remaining_pdfs[i]] =
                           FileAfter(documents, documents)]
  /\ opened' = opened \cup {remaining_pdfs[i]}
  /\ output_files' = Append(output_files, remaining_pdfs[i])
  /\ converted' = Append(converted, remaining_pdfs[i])
  /\ convCount' = [convCount EXCEPT ![output_format][remaining_pdfs[i]] = @ + 1]
  /\ i' = i + 1
  /\ documents' = -1
  /\ pc' = "loop"
  /\ UNCHANGED <<env, pdfDir, pdfs, choice, output_format, pdf_files,
                 remaining_pdfs, runs, atStart, dirAtStart, runCalls, failed, report,
                 quotaAt, other>>

\* Lines 173-175 raise after w of the segments were written (the device is
\* full, a text is not a str): the with block closes the file as it is and
\* the handler of 180-190 runs.
WriteRaises(e, w) ==
  /\ pc = "write" /\ script = "llama-parse"
  /\ w \in 0..(documents - 1)
  /\ e \in IoMsgs
  /\ out' = [out EXCEPT ![output_format][remaining_pdfs[i]] =
                           FileAfter(w, documents)]
  /\ opened' = opened \cup {remaining_pdfs[i]}
  /\ HandleException(e)
  /\ documents' = -1
  /\ UNCHANGED <<env, pdfDir, pdfs, choice, output_format, pdf_files,
                 remaining_pdfs, output_files, runs, atStart, dirAtStart, runCalls,
                 converted, convCount, other>>

\* Lines 192-196: Ctrl-C during load_data is caught by the outer try and the
\* function returns what it has listed.
InterruptLoad ==
  /\ pc = "loop" /\ script = "llama-parse"
  /\ i <= Len(remaining_pdfs)
  /\ runCalls' = Append(runCalls, remaining_pdfs[i])
  /\ report' = report \cup {"interrupted"}
  /\ pc' = "returned"
  /\ UNCHANGED <<env, pdfDir, pdfs, out, choice, output_format, pdf_files,
                 remaining_pdfs, output_files, i, documents, runs, atStart, dirAtStart,
                 opened, converted, failed, quotaAt, convCount, other>>

\* Lines 192-196: Ctrl-C after w of the segments were written (before line
\* 177): the with block closes the file as it is, the outer try catches the
\* interrupt and the function returns what it has listed.
InterruptWrite(w) ==
  /\ pc = "write" /\ script = "llama-parse"
  /\ w \in 0..documents
  /\ out' = [out EXCEPT ![output_format][remaining_pdfs[i]] =
                           FileAfter(w, documents)]
  /\ opened' = opened \cup {remaining_pdfs[i]}
  /\ report' = report \cup {"interrupted"}
  /\ documents' = -1
  /\ pc' = "returned"
  /\ UNCHANGED <<env, pdfDir, pdfs, choice, output_format, pdf_files,
                 remaining_pdfs, output_files, i, runs, atStart, dirAtStart, runCalls,
                 converted, failed, quotaAt, convCount, other>>

\* main 324-332: the list is reported; choice 1 goes back to the menu.
ParseReturn ==
  /\ pc = "returned" /\ script = "llama-parse"
  /\ pc' = IF choice = "1" THEN "menu" ELSE "nodes"
  /\ ResetRun /\ ResetMain
  /\ UNCHANGED <<env, pdfDir, pdfs, out, runs, convCount, other>>

\* main 334-372: nodes, index and the query loop (SpecQuery follows the loop
\* query by query).  The loop ends by 'exit' or 'n' (back to the menu) or by
\* an exception that main's outer handler reports before main returns.
QueryStage(ends) ==
  /\ pc = "nodes" /\ script = "llama-parse"
  /\ pc' = IF ends = "raised" THEN "exited" ELSE "menu"
  /\ UNCHANGED <<env, pdfDir, pdfs, out, choice, output_format, locals, runs,
                 hist, convCount, other>>

\* The user starts the script again; the files on disk stay.
Restart ==
  /\ pc \in {"exited", "crashed"}
  /\ runs < MaxRuns
  /\ pc' = "start"
  /\ ResetRun
  /\ UNCHANGED <<env, pdfDir, pdfs, out, choice, output_format, runs,
                 convCount, other>>

\* ----------------------------------------------------- part_000: startup
\* Lines 13-15: os.environ[...] = os.getenv(...) raises TypeError when either
\* variable is unset; otherwise main (127-131) starts the conversion at once.
StartupCopy ==
  /\ pc = "start" /\ script = "copy"
  /\ pc' = IF openaiKey /\ llamaKey THEN "parse" ELSE "crashed"
  /\ output_format' = ".md"
  /\ UNCHANGED <<env, pdfDir, pdfs, out, choice, locals, runs, hist,
                 convCount, other>>

\* ------------------------------------- part_000: parse_pdfs_to_markdown
\* Lines 19-60: the parser is built, output/markdown made; an absent PDF
\* directory is created and [] returned; with no PDF the markdown files that
\* exist are returned.
ParseBeginMd ==
  /\ pc = "parse" /\ script = "copy"
  /\ runs' = runs + 1
  /\ atStart' = ProcessedFiles(".md")
  /\ dirAtStart' = pdfDir
  /\ runCalls' = <<>> /\ opened' = {} /\ converted' = <<>>
  /\ failed' = {} /\ report' = {} /\ quotaAt' = 0
  /\ documents' = -1 /\ i' = 1
  /\ remaining_pdfs' = <<>>
  /\ IF ~pdfDir
     THEN /\ pdfDir' = TRUE
          /\ pdf_files' = <<>>
          /\ output_files' = <<>>
          /\ pc' = "returned"
     ELSE /\ pdfDir' = pdfDir
          /\ pdf_files' = SortedSeq(pdfs)
          /\ IF pdfs = {}
             THEN /\ output_files' = ListOfSet(ProcessedFiles(".md"))
                  /\ pc' = "returned"
             ELSE /\ output_files' = <<>>
                  /\ pc' = "loop"
  /\ UNCHANGED <<env, pdfs, out, choice, output_format, convCount, other>>

\* Line 62: the loop is exhausted, the function returns (88).
LoopEndMd ==
  /\ pc = "loop" /\ script = "copy"
  /\ i > Len(pdf_files)
  /\ pc' = "returned"
  /\ UNCHANGED <<env, pdfDir, pdfs, out, choice, output_format, locals, runs,
                 hist, convCount, other>>

\* Lines 66-70: the markdown file exists, it is listed and the PDF skipped.
SkipExistingMd ==
  /\ pc = "loop" /\ script = "copy"
  /\ i <= Len(pdf_files)
  /\ MarkdownFileExists(pdf_files[i])
  /\ output_files' = Append(output_files, pdf_files[i])
  /\ i' = i + 1
  /\ UNCHANGED <<env, pdfDir, pdfs, out, pc, choice, output_format, pdf_files,
                 remaining_pdfs, documents, runs, hist, convCount, other>>

\* Line 74, normal return: n documents.
LoadDataMd(n) ==
  /\ pc = "loop" /\ script = "copy"
  /\ i <= Len(pdf_files)
  /\ ~MarkdownFileExists(pdf_files[i])
  /\ n \in LoadResults(llamaKey)
  /\ runCalls' = Append(runCalls, pdf_files[i])
  /\ documents' = n
  /\ pc' = "write"
  /\ UNCHANGED <<env, pdfDir, pdfs, out, choice, output_format, pdf_files,
                 remaining_pdfs, output_files, i, runs, atStart, dirAtStart,
                 opened, converted, failed, report, quotaAt, convCount, other>>

\* Lines 84-86: every Exception of the try is reported and the loop goes on.
HandleExceptionMd(e) ==
  /\ report' = report \cup {"failed"}
  /\ failed' = failed \cup {pdf_files[i]}
  /\ i' = i + 1
  /\ pc' = "loop"
  /\ UNCHANGED quotaAt

\* Line 74 raises an Exception.
LoadDataRaisesMd(e) ==
  /\ pc = "loop" /\ script = "copy"
  /\ i <= Len(pdf_files)
  /\ ~MarkdownFileExists(pdf_files[i])
  /\ e \in LoadErrors(llamaKey)
  /\ runCalls' = Append(runCalls, pdf_files[i])
  /\ HandleExceptionMd(e)
  /\ documents' = -1
  /\ UNCHANGED <<env, pdfDir, pdfs, out, choice, output_format, pdf_files,
                 remaining_pdfs, output_files, runs, atStart, dirAtStart,
                 opened, converted, convCount, other>>

\* Lines 78-83, no exception: the file is created, every document's text
\* and the delimiter are written, the file is closed and listed.
WriteFileMd ==
  /\ pc = "write" /\ script = "copy"
  /\ out' = [out EXCEPT ![".md"][pdf_files[i]] =
                           FileAfter(documents, documents)]
  /\ opened' = opened \cup {pdf_files[i]}
  /\ output_files' = Append(output_files, pdf_files[i])
  /\ converted' = Append(converted, pdf_files[i])
  /\ convCount' = [convCount EXCEPT ![".md"][pdf_files[i]] = @ + 1]
  /\ i' = i + 1
  /\ documents' = -1
  /\ pc' = "loop"
  /\ UNCHANGED <<env, pdfDir, pdfs, choice, output_format, pdf_files,
                 remaining_pdfs, runs, atStart, dirAtStart, runCalls, failed, report,
                 quotaAt, other>>

\* Lines 78-80 raise after w of the segments were written: the file is closed
\* as it is and the handler of 84-86 runs.
WriteRaisesMd(e, w) ==
  /\ pc = "write" /\ script = "copy"
  /\ w \in 0..(documents - 1)
  /\ e \in IoMsgs
  /\ out' = [out EXCEPT ![".md"][pdf_files[i]] = FileAfter(w, documents)]
  /\ opened' = opened \cup {pdf_files[i]}
  /\ HandleExceptionMd(e)
  /\ documents' = -1
  /\ UNCHANGED <<env, pdfDir, pdfs, choice, output_format, pdf_files,
                 remaining_pdfs, output_files, runs, atStart, dirAtStart, runCalls,
                 converted, convCount, other>>

\* Ctrl-C during load_data: KeyboardInterrupt is no Exception, neither line
\* 84 nor main's handler (165) catches it, and the process ends.
InterruptLoadMd ==
  /\ pc = "loop" /\ script = "copy"
  /\ i <= Len(pdf_files)
  /\ ~MarkdownFileExists(pdf_files[i])
  /\ runCalls' = Append(runCalls, pdf_files[i])
  /\ report' = report \cup {"interrupted"}
  /\ pc' = "crashed"
  /\ UNCHANGED <<env, pdfDir, pdfs, out, choice, output_format, pdf_files,
                 remaining_pdfs, output_files, i, documents, runs, atStart, dirAtStart,
                 opened, converted, failed, quotaAt, convCount, other>>

\* Ctrl-C after w of the segments were written: the with block closes the
\* file as it is and the process ends.
InterruptWriteMd(w) ==
  /\ pc = "write" /\ script = "copy"
  /\ w \in 0..documents
  /\ out' = [out EXCEPT ![".md"][pdf_files[i]] = FileAfter(w, documents)]
  /\ opened' = opened \cup {pdf_files[i]}
  /\ report' = report \cup {"interrupted"}
  /\ documents' = -1
  /\ pc' = "crashed"
  /\ UNCHANGED <<env, pdfDir, pdfs, choice, output_format, pdf_files,
                 remaining_pdfs, output_files, i, runs, atStart, dirAtStart, runCalls,
                 converted, failed, quotaAt, convCount, other>>

\* main 131-132: the number of markdown files is reported.
ParseReturnMd ==
  /\ pc = "returned" /\ script = "copy"
  /\ pc' = "nodes"
  /\ ResetRun
  /\ UNCHANGED <<env, pdfDir, pdfs, out, choice, output_format, runs,
                 convCount, other>>

\* main 134-168: nodes, index and the query loop; main ends with it.
QueryStageMd ==
  /\ pc = "nodes" /\ script = "copy"
  /\ pc' = "exited"
  /\ UNCHANGED <<env, pdfDir, pdfs, out, choice, output_format, locals, runs,
                 hist, convCount, other>>

\* ------------------------------------------------------------------- Spec
Next ==
  \/ Startup
  \/ \E c \in {"1", "2", "3"} : ShowMenu(c)
  \/ \E f \in Formats : ShowFormatMenu(f)
  \/ ParseBegin
  \/ \E ans \in {"y", "n", "^C"} : Confirm(ans)
  \/ LoopEnd
  \/ \E n \in 0..MaxSegs : LoadData(n)
  \/ \E e \in ErrMsgs \cup {<<"Invalid API key">>} : LoadDataRaises(e)
  \/ WriteFile
  \/ \E e \in IoMsgs, w \in 0..MaxSegs : WriteRaises(e, w)
  \/ InterruptLoad
  \/ \E w \in 0..MaxSegs : InterruptWrite(w)
  \/ ParseReturn
  \/ \E ends \in {"left", "raised"} : QueryStage(ends)
  \/ Restart
  \/ StartupCopy
  \/ ParseBeginMd
  \/ LoopEndMd
  \/ SkipExistingMd
  \/ \E n \in 0..MaxSegs : LoadDataMd(n)
  \/ \E e \in ErrMsgs : LoadDataRaisesMd(e)
  \/ WriteFileMd
  \/ \E e \in IoMsgs, w \in 0..MaxSegs : WriteRaisesMd(e, w)
  \/ InterruptLoadMd
  \/ \E w \in 0..MaxSegs : InterruptWriteMd(w)
  \/ ParseReturnMd
  \/ QueryStageMd

Spec == Init /\ [][Next]_vars

\* ----------------------------------------------------------- the claims
Range(s) == {s[k] : k \in 1..Len(s)}

\* The PDFs a run has to convert, in discovery order: those without an
\* output file when the run began.
ToConvert ==
  IF script = "llama-parse" THEN remaining_pdfs
  ELSE SelectSeq(pdf_files, LAMBDA s : s \notin atStart)

\* C1: a PDF whose output file exists when a run starts is never handed to
\* parser.load_data in that run, its file is never opened for writing, and
\* it is in the list the run returns; over all runs no (format, PDF) pair is
\* converted more than once.  Both batch functions.
C1_Idempotent ==
  /\ \A s \in atStart : s \notin Range(runCalls) /\ s \notin opened
  /\ (pc = "returned" /\ pdf_files # <<>>)
       => (atStart \cap Range(pdf_files)) \subseteq Range(output_files)
  /\ \A f \in Formats, s \in Stems : convCount[f][s] <= 1

\* A second run has returned: it skipped a PDF converted by the first run,
\* lists it, and converted another PDF itself.
C1_Witness ==
  /\ pc = "returned" /\ runs = 2
  /\ \E s \in atStart \cap Range(pdf_files) :
       /\ convCount[output_format][s] = 1
       /\ s \in Range(output_files)
  /\ converted # <<>>

\* C2: in parse_pdfs_to_file, once the conversion of the k-th remaining PDF
\* raises the quota error the run returns at once: load_data was called for
\* the first k remaining PDFs only, the returned list holds exactly the files
\* present at the start and the PDFs converted before the k-th (all k-1 of
\* them when none failed), their files are complete and those present at
\* the start untouched, and the quota report was printed.
C2_QuotaHalt ==
  quotaAt > 0 =>
    /\ script = "llama-parse" /\ pc = "returned"
    /\ quotaAt <= Len(remaining_pdfs)
    /\ runCalls = SubSeq(remaining_pdfs, 1, quotaAt)
    /\ Range(converted) =
         {remaining_pdfs[k] : k \in 1..(quotaAt - 1)} \ failed
    /\ (failed = {} => Len(converted) = quotaAt - 1)
    /\ Range(output_files) = atStart \cup Range(converted)
    /\ \A s \in Range(converted) : out[output_format][s] = "complete"
    /\ \A s \in atStart : s \notin opened
    /\ out[output_format][remaining_pdfs[quotaAt]] = "absent"
    /\ "quota" \in report

\* The quota error on the 2nd of 3 remaining PDFs: 1 converted, the 3rd
\* never attempted.
C2_Witness ==
  /\ quotaAt = 2 /\ Len(remaining_pdfs) = 3
  /\ converted = <<1>> /\ runCalls = <<1, 2>>
  /\ Range(output_files) = {1}

\* C3: a non-quota error of one PDF's conversion is caught and reported, the
\* PDF is not in the list, the function goes on (it neither returns nor
\* raises because of the error) and load_data is called for the PDFs to
\* convert in discovery order: for all of them when the run returns without
\* the quota error or an interrupt.  Both batch functions.
C3_FailureIsolated ==
  /\ \A s \in failed : s \notin Range(output_files)
  /\ failed # {} =>
       /\ "failed" \in report
       /\ \/ pc \in {"loop", "write", "returned"}
          \/ script = "copy" /\ pc = "crashed" /\ "interrupted" \in report
       /\ \E k \in 0..Len(ToConvert) : runCalls = SubSeq(ToConvert, 1, k)
       /\ pc = "loop" =>
            \A k \in 1..Len(ToConvert) :
              ToConvert[k] \in failed => \A j \in 1..k : ToConvert[j] \in Range(runCalls)
       /\ (pc = "returned" /\ report = {"failed"}) => runCalls = ToConvert

\* The 1st of 3 PDFs failed, the two after it were converted and the run
\* returned them.
C3_Witness ==
  /\ pc = "returned" /\ failed = {1}
  /\ runCalls = <<1, 2, 3>> /\ converted = <<2, 3>>
  /\ Range(output_files) = {2, 3}

\* C8 (the claim as stated): whenever no file is being written, every output
\* file on disk holds all the segments of its source.
C8_NoPartialOutput ==
  \A f \in Formats, s \in Stems : out[f][s] # "partial"

\* C9 (the claim as stated): with either key absent the process never gets
\* past its start.
C9_FailFast ==
  (~openaiKey \/ ~llamaKey) => pc \in {"start", "crashed"}

\* C10 (the claim as stated): a run that began without data/documents
\* returns the empty list, has called no conversion, and leaves the
\* directory in place.  Both batch functions.
C10_Bootstrap ==
  (pc = "returned" /\ ~dirAtStart) =>
     /\ pdfDir
     /\ output_files = <<>>
     /\ runCalls = <<>>

\* ============================================================ query loop
\* llama-parse.py lines 228/234 and 235: similarity_top_k=15 and
\* filter_similarity_threshold=0.7 (scores are held in hundredths).
SimilarityTopK == 15
Threshold == 70

\* The scores of the nodes of the index for one question, best first: a of
\* them score 90, b score 75, c score 50.
Ranked(a, b, c) ==
  [k \in 1..(a + b + c) |->
     IF k <= a THEN 90 ELSE IF k <= a + b THEN 75 ELSE 50]

Min(x, y) == IF x <= y THEN x ELSE y

\* Lines 232-237: the retriever hands back the similarity_top_k best nodes.
\* VectorIndexRetriever has no parameter filter_similarity_threshold (nor
\* query_mode): the keyword is accepted and read by nothing.
Retrieve(ranked) == SubSeq(ranked, 1, Min(Len(ranked), SimilarityTopK))

\* Line 248: node_postprocessors=[]: no postprocessor (a similarity cutoff
\* would be one) is applied to what the retriever hands back.
Postprocess(ns) == ns

\* Lines 240-250, query_engine.query without an exception: the source nodes
\* of the response.
SourceNodes(ranked) == Postprocess(Retrieve(ranked))

\* Lines 240-250, query_engine.query: the answer is generated (tree_summarize,
\* line 243) from the source nodes.  With no source node there is nothing to
\* summarize and no answer is taken to be generated.
Generates(ns) == ns # <<>>

InitIngestIdle ==
  /\ script = "llama-parse" /\ openaiKey = TRUE /\ llamaKey = TRUE
  /\ pdfDir = TRUE /\ pdfs = {} /\ out = NoOutput
  /\ pc = "nodes" /\ runs = 1 /\ convCount = NoCount
  /\ InitLocals

\* main has built the query engine (340) and enters the loop of line 351.
InitQuery ==
  /\ InitIngestIdle /\ InitChunkIdle
  /\ qpc = "prompt" /\ cands = <<>>
  /\ response = [kind |-> "none", source_nodes |-> <<>>]
  /\ generated = FALSE /\ shown = "nothing" /\ asked = 0

ingest == <<env, pdfDir, pdfs, out, pc, choice, output_format, locals, runs,
            hist, convCount>>

\* main 352-356: a question is read; 'exit' leaves the loop.
AskQuestion(exit) ==
  /\ qpc = "prompt"
  /\ IF exit
     THEN /\ qpc' = "menu"
          /\ UNCHANGED <<asked, generated, shown, response, cands>>
     ELSE /\ asked < MaxQueries
          /\ asked' = asked + 1
          /\ generated' = FALSE
          /\ shown' = "nothing"
          /\ response' = [kind |-> "none", source_nodes |-> <<>>]
          /\ cands' = <<>>
          /\ qpc' = "query"
  /\ UNCHANGED <<ingest, cvars>>

\* process_query (281-309) when query_engine.query returns: the fixed
\* "not found, please rephrase" string of line 304 if the response has no
\* source node, else the response.
ProcessQuery(ranked) ==
  /\ qpc = "query"
  /\ generated' = Generates(SourceNodes(ranked))
  /\ cands' = ranked
  /\ response' = IF SourceNodes(ranked) = <<>>
                 THEN [kind |-> "str", source_nodes |-> <<>>]
                 ELSE [kind |-> "Response", source_nodes |-> SourceNodes(ranked)]
  /\ shown' = "nothing"
  /\ qpc' = "respond"
  /\ UNCHANGED <<asked, ingest, cvars>>

\* process_query (298-309) when query_engine.query raises: the error is
\* printed and None returned.
ProcessQueryRaises(ranked) ==
  /\ qpc = "query"
  /\ generated' = FALSE
  /\ cands' = ranked
  /\ response' = [kind |-> "None", source_nodes |-> <<>>]
  /\ shown' = "error"
  /\ qpc' = "respond"
  /\ UNCHANGED <<asked, ingest, cvars>>

\* process_query_response (254-279): a str is printed as a system message
\* (256-259); otherwise response.response is printed (262), then the
\* sources.  For None line 262 raises AttributeError, which nothing in the
\* loop catches: main's outer handler (369-372) prints it and main returns.
ProcessQueryResponse ==
  /\ qpc = "respond"
  /\ IF response.kind = "str"
     THEN shown' = "system message" /\ qpc' = "continue"
     ELSE IF response.kind = "None"
          THEN shown' = "traceback" /\ qpc' = "exited"
          ELSE shown' = "answer and sources" /\ qpc' = "continue"
  /\ UNCHANGED <<asked, generated, response, cands, ingest, cvars>>

\* main 362-363: another question or back to the menu.
ContinuePrompt(ans) ==
  /\ qpc = "continue"
  /\ qpc' = IF ans = "y" THEN "prompt" ELSE "menu"
  /\ UNCHANGED <<asked, generated, shown, response, cands, ingest, cvars>>

\* main 365-367: Ctrl-C anywhere in the loop goes back to the menu.
InterruptQuery ==
  /\ qpc \in {"prompt", "query", "respond", "continue"}
  /\ qpc' = "menu"
  /\ UNCHANGED <<asked, generated, shown, response, cands, ingest, cvars>>

NextQuery ==
  \/ \E exit \in BOOLEAN : AskQuestion(exit)
  \/ \E a \in 0..MaxNodes : \E b \in 0..(MaxNodes - a) :
       \E c \in 0..(MaxNodes - a - b) : ProcessQuery(Ranked(a, b, c))
  \/ \E a \in 0..MaxNodes : \E b \in 0..(MaxNodes - a) :
       \E c \in 0..(MaxNodes - a - b) : ProcessQueryRaises(Ranked(a, b, c))
  \/ ProcessQueryResponse
  \/ \E ans \in {"y", "n"} : ContinuePrompt(ans)
  \/ InterruptQuery

SpecQuery == InitQuery /\ [][NextQuery]_vars

\* C4 (the claim as stated): a question whose query_engine.query raised is
\* answered by a diagnostic and the loop goes on: main is never ended by an
\* exception of the per-query step.
C4_SessionSurvives ==
  /\ qpc # "exited"
  /\ (response.kind = "None" /\ qpc = "continue") => shown = "error"

\* C5 (the claim as stated): when none of the top_k candidates of a question
\* scores at least the threshold, no answer is generated for it and the
\* result is the fixed message, with no source node.
C5_EmptyShortCircuit ==
  (response.kind \in {"str", "Response"}
     /\ SelectSeq(Retrieve(cands), LAMBDA sc : sc >= Threshold) = <<>>)
  => /\ ~generated
     /\ response.kind = "str"
     /\ response.source_nodes = <<>>

\* C6 (the claim as stated): the source nodes of a response are exactly the
\* top_k candidates that score at least the threshold, best first.
C6_ThresholdFilter ==
  response.kind = "Response" =>
    /\ \A k \in 1..Len(response.source_nodes) :
         response.source_nodes[k] >= Threshold
    /\ response.source_nodes =
         SelectSeq(Retrieve(cands), LAMBDA sc : sc >= Threshold)

\* =============================================================== chunker
\* File contents are lists of characters.
Delim == <<"\n", "\n", "-", "-", "-", "\n", "\n">>
Whitespace == {" ", "\n", "\r"}

\* The pieces file contents are put together from: texts, a blank run, the
\* delimiter and the two halves a delimiter can be put together from.
Pieces == { <<"A">>, <<"B">>, <<" ", " ">>, Delim,
            <<"\n", "\n">>, <<"-", "-", "-">> }

\* str.strip() of a section is the empty string.
IsBlank(s) == \A k \in 1..Len(s) : s[k] \in Whitespace

\* The delimiter is at place k of s.
DelimAt(s, k) ==
  /\ k + Len(Delim) - 1 <= Len(s)
  /\ SubSeq(s, k, k + Len(Delim) - 1) = Delim

\* Line 209, content.split("\n\n---\n\n"): the occurrences of the delimiter
\* are taken from the left, without overlap; the pieces between them are
\* the sections.
RECURSIVE Split(_)
Split(s) ==
  IF \E k \in 1..Len(s) : DelimAt(s, k)
  THEN LET k == CHOOSE j \in 1..Len(s) :
                  DelimAt(s, j) /\ \A h \in 1..(j - 1) : ~DelimAt(s, h)
       IN <<SubSeq(s, 1, k - 1)>> \o Split(SubSeq(s, k + Len(Delim), Len(s)))
  ELSE <<s>>

\* Mutant of NodesOf: the ordinals are renumbered after the blank sections
\* are dropped.
NodesOfRenumbered(c) ==
  LET kept == SelectSeq(Split(c), LAMBDA sec : ~IsBlank(sec))
  IN [k \in 1..Len(kept) |-> [text |-> kept[k], section |-> k - 1]]

\* Lines 209-219: one node per section that is not blank, with the
\* section's text and its index in the split.
NodesOf(c) ==
  LET sections == Split(c)
      numbered == [k \in 1..Len(sections) |->
                     [text |-> sections[k], section |-> k - 1]]
  IN SelectSeq(numbered, LAMBDA n : ~IsBlank(n.text))

\* Lines 205-206, open(md_file, "r") and f.read(): the file is read in text
\* mode, where "\r\n" and a lone "\r" are both read as "\n".
RECURSIVE ReadText(_)
ReadText(s) ==
  IF s = <<>> THEN <<>>
  ELSE IF s[1] = "\r"
       THEN IF Len(s) > 1 /\ s[2] = "\n"
            THEN <<"\n">> \o ReadText(SubSeq(s, 3, Len(s)))
            ELSE <<"\n">> \o ReadText(Tail(s))
       ELSE <<s[1]>> \o ReadText(Tail(s))

\* The contents put together from at most n pieces.
RECURSIVE Contents(_)
Contents(n) ==
  IF n = 0 THEN { <<>> }
  ELSE LET shorter == Contents(n - 1)
       IN shorter \cup {c \o p : c \in shorter, p \in Pieces}

InitChunk ==
  /\ InitIngestIdle /\ InitQueryIdle
  /\ content \in Contents(MaxPieces)
  /\ nodes = <<>> /\ cpc = "read" /\ texts = <<>>

\* create_nodes_from_markdown (198-221) on a list of one file: the file is
\* read (205-206) and its nodes are returned.
CreateNodesFromMarkdown ==
  /\ cpc = "read"
  /\ nodes' = NodesOf(ReadText(content))
  /\ cpc' = "done"
  /\ UNCHANGED <<content, texts, ingest, qvars>>

NextChunk == CreateNodesFromMarkdown

SpecChunk == InitChunk /\ [][NextChunk]_vars

\* The sections of s put together again with the delimiter between them.
RECURSIVE Joined(_)
Joined(secs) ==
  IF Len(secs) = 1 THEN secs[1]
  ELSE secs[1] \o Delim \o Joined(Tail(secs))

ExampleContent == <<"A">> \o Delim \o <<" ", " ">> \o Delim \o <<"B">>

\* C7: the nodes of a file are exactly its sections that are not blank, in
\* the order of the file, each with its text unchanged and as ordinal its
\* index in the split (counted before the blank ones are dropped); the
\* sections are the pieces of the content between the delimiters; and
\* "A<d>  <d>B" gives the two nodes "A" (0) and "B" (2).
C7_Chunking ==
  cpc = "done" =>
    LET secs == Split(content)
        keptIdx == {k \in 1..Len(secs) : ~IsBlank(secs[k])}
    IN /\ Joined(secs) = content
       /\ Len(nodes) = Cardinality(keptIdx)
       /\ \A k \in 1..Len(nodes) :
            /\ nodes[k].section + 1 \in keptIdx
            /\ nodes[k].text = secs[nodes[k].section + 1]
       /\ \A k \in 1..(Len(nodes) - 1) :
            nodes[k].section < nodes[k + 1].section
       /\ content = ExampleContent =>
            nodes = << [text |-> <<"A">>, section |-> 0],
                       [text |-> <<"B">>, section |-> 2] >>

\* The example of the claim has been chunked.
C7_Witness ==
  /\ cpc = "done" /\ content = ExampleContent
  /\ Len(nodes) = 2 /\ nodes[2].section = 2

\* ============================================================ round trip
\* The texts a converted document can have: plain ones, a blank one, one
\* that holds the delimiter, one with a newline at its end, ones with a
\* horizontal rule ("---" after an empty line) at their end or at their
\* start, and one with a carriage return.
SegTexts == { <<"A">>, <<"B">>, <<" ", " ">>,
              <<"A">> \o Delim \o <<"B">>,
              <<"A", "\n">>,
              <<"A", "\n", "\n", "-", "-", "-">>,
              <<"A", "\n", "\n", "-", "-", "-", "\n">>,
              <<"-", "-", "-", "\n", "\n", "B">>,
              <<"A", "\r", "B">> }

\* The lists of at most n texts.
RECURSIVE TextLists(_)
TextLists(n) ==
  IF n = 0 THEN { <<>> }
  ELSE LET shorter == TextLists(n - 1)
       IN shorter \cup {l \o <<s>> : l \in shorter, s \in SegTexts}

\* Lines 173-175 (part_000 78-80): the file opened with "w" gets, for each
\* document in turn, its text followed by the delimiter.  (Where the line
\* separator is "\n", the text mode writes the characters as they are.)
RECURSIVE Written(_)
Written(docs) ==
  IF docs = <<>> THEN <<>>
  ELSE docs[1] \o Delim \o Written(Tail(docs))

InitRound ==
  /\ InitIngestIdle /\ InitQueryIdle
  /\ texts \in TextLists(MaxSegs)
  /\ content = <<>> /\ nodes = <<>> /\ cpc = "write"

\* Lines 173-175: the documents load_data returned are written to the
\* output file, which create_nodes_from_markdown reads afterwards.
WriteDocuments ==
  /\ cpc = "write"
  /\ content' = Written(texts)
  /\ cpc' = "read"
  /\ UNCHANGED <<nodes, texts, ingest, qvars>>

NextRound ==
  \/ WriteDocuments
  \/ CreateNodesFromMarkdown

SpecRound == InitRound /\ [][NextRound]_vars

\* The text holds the delimiter.
HasDelim(s) == \E k \in 1..Len(s) : DelimAt(s, k)

\* C11 (the claim as stated): when every text of a conversion is non-blank
\* and holds no delimiter, the file written from the n texts is chunked into
\* exactly n nodes, whose texts are the n texts in order and whose ordinals
\* are 0..n-1 (none for the delimiter at the end, none at all for n = 0).
C11_RoundTrip ==
  (cpc = "done" /\ \A k \in 1..Len(texts) :
                     ~IsBlank(texts[k]) /\ ~HasDelim(texts[k]))
  => /\ Len(nodes) = Len(texts)
     /\ \A k \in 1..Len(nodes) :
          /\ nodes[k].text = texts[k]
          /\ nodes[k].section = k - 1

====
